---- MODULE Spec2Model ----
(***************************************************************************)
(* A model of the resource-binding and draw-dispatch core of rend:         *)
(*   - Framebuffer (validated construction, init, restore, target) over    *)
(*     Device's draw-framebuffer binding stack;                            *)
(*   - Command (create, execute, clear, draw, updateUniforms).             *)
(* The GL driver is the environment: what createFramebuffer,               *)
(* checkFramebufferStatus, isFramebuffer and getUniformLocation answer is  *)
(* chosen nondeterministically.                                            *)
(***************************************************************************)
EXTENDS Integers, Sequences, FiniteSets, TLC

VARIABLES
    stackDrawFramebuffer,   \* Device's draw-framebuffer binding stack (bottom = default surface)
    glDrawFramebuffer,      \* the framebuffer the GL context has bound for drawing
    glFramebuffers,         \* framebuffer objects the driver reports valid (isFramebuffer)
    nextHandle,             \* the next object name createFramebuffer hands out
    openScopes,             \* Target.with callbacks currently running
    fb,                     \* the Framebuffer object under observation
    last,                   \* what the last Framebuffer operation did
    cmd,                    \* the Command object under observation
    gl,                     \* GL state touched by Command: program, vertex array, texture unit
    drawsDone,              \* draws executed with cmd
    run                     \* what the last Command operation did

vars == <<stackDrawFramebuffer, glDrawFramebuffer, glFramebuffers, nextHandle,
          openScopes, fb, last, cmd, gl, drawsDone, run>>

fbVars == <<stackDrawFramebuffer, glDrawFramebuffer, glFramebuffers, nextHandle,
            openScopes, fb, last>>

cmdVars == <<cmd, gl, drawsDone, run>>

----------------------------------------------------------------------------
(* Bounds *)

MaxHandles == 2     \* framebuffer objects the driver creates in one run
MaxStack == 2       \* depth of the binding stack at which a scope or an init() may still start
MaxColors == 2      \* colour attachments supplied to one construction

----------------------------------------------------------------------------
(* Framebuffer: values *)

NullHandle == 0     \* JavaScript null where a WebGLFramebuffer is expected

COLOR_ATTACHMENT0 == 36064
DEPTH_ATTACHMENT == 36096
DEPTH_STENCIL_ATTACHMENT == 33306

\* The caller's textures: texture t is TexWidth[t] x TexHeight[t].
TexWidth == <<1, 1, 1>>
TexHeight == <<1, 1, 2>>
Textures == DOMAIN TexWidth
NoTexture == 0      \* depthStencil === undefined

Dims == {1, 2}

Variants == {"withColor", "withDepth", "withDepthStencil",
             "withColorDepth", "withColorDepthStencil"}

Statuses == {"FRAMEBUFFER_COMPLETE", "FRAMEBUFFER_INCOMPLETE_ATTACHMENT",
             "FRAMEBUFFER_UNSUPPORTED"}

ColorLists == UNION {[1..n -> Textures] : n \in 0..MaxColors}

\* An event of an operation's trace.
Ev(op, a, b) == [op |-> op, a |-> a, b |-> b]

----------------------------------------------------------------------------
(* Device binding stack and Target *)

Top(s) == s[Len(s)]

StackPush(s, v) == Append(s, v)

StackPop(s) == SubSeq(s, 1, Len(s) - 1)

NewTarget(glDrawBuffers, glFramebuffer, width, height) ==
    [glDrawBuffers |-> glDrawBuffers, glFramebuffer |-> glFramebuffer,
     width |-> width, height |-> height]

----------------------------------------------------------------------------
(* util/assert *)

AssertNonEmpty(xs) == xs # <<>>

AssertEqual(expected, actual) == expected = actual

----------------------------------------------------------------------------
(* Framebuffer: the five validated construction variants.  Each yields the *)
(* failed assertion, or "ok" and the arguments handed to the constructor.  *)

Validated(check, colors, depthStencil, depthOnly) ==
    [check |-> check, colors |-> colors, depthStencil |-> depthStencil,
     depthOnly |-> depthOnly]

\* The colour loop comparing widths only.
ColorsEqualWidthOnly(width, height, colors) ==
    \A i \in 1..Len(colors) : AssertEqual(width, TexWidth[colors[i]])

ColorsEqual(width, height, colors) ==
    \A i \in 1..Len(colors) :
        /\ AssertEqual(width, TexWidth[colors[i]])
        /\ AssertEqual(height, TexHeight[colors[i]])

\* withColor() without the assertion on the number of colour buffers.
withColorAnyNumber(width, height, color) ==
    IF ~ColorsEqual(width, height, color)
    THEN Validated("equal", color, NoTexture, TRUE)
    ELSE Validated("ok", color, NoTexture, TRUE)

withColor(width, height, color) ==
    IF ~AssertNonEmpty(color) THEN Validated("nonEmpty", color, NoTexture, TRUE)
    ELSE IF ~ColorsEqual(width, height, color)
    THEN Validated("equal", color, NoTexture, TRUE)
    ELSE Validated("ok", color, NoTexture, TRUE)

withDepth(width, height, depth) ==
    IF ~AssertEqual(width, TexWidth[depth]) \/ ~AssertEqual(height, TexHeight[depth])
    THEN Validated("equal", <<>>, depth, TRUE)
    ELSE Validated("ok", <<>>, depth, TRUE)

withDepthStencil(width, height, depthStencil) ==
    IF ~AssertEqual(width, TexWidth[depthStencil])
       \/ ~AssertEqual(height, TexHeight[depthStencil])
    THEN Validated("equal", <<>>, depthStencil, FALSE)
    ELSE Validated("ok", <<>>, depthStencil, FALSE)

withColorDepth(width, height, color, depth) ==
    IF ~AssertNonEmpty(color) THEN Validated("nonEmpty", color, depth, TRUE)
    ELSE IF ~ColorsEqual(width, height, color)
    THEN Validated("equal", color, depth, TRUE)
    ELSE IF ~AssertEqual(width, TexWidth[depth]) \/ ~AssertEqual(height, TexHeight[depth])
    THEN Validated("equal", color, depth, TRUE)
    ELSE Validated("ok", color, depth, TRUE)

withColorDepthStencil(width, height, color, depthStencil) ==
    IF ~AssertNonEmpty(color) THEN Validated("nonEmpty", color, depthStencil, FALSE)
    ELSE IF ~ColorsEqual(width, height, color)
    THEN Validated("equal", color, depthStencil, FALSE)
    ELSE IF ~AssertEqual(width, TexWidth[depthStencil])
            \/ ~AssertEqual(height, TexHeight[depthStencil])
    THEN Validated("equal", color, depthStencil, FALSE)
    ELSE Validated("ok", color, depthStencil, FALSE)

Validate(variant, width, height, color, depth) ==
    CASE variant = "withColor" -> withColor(width, height, color)
      [] variant = "withDepth" -> withDepth(width, height, depth)
      [] variant = "withDepthStencil" -> withDepthStencil(width, height, depth)
      [] variant = "withColorDepth" -> withColorDepth(width, height, color, depth)
      [] variant = "withColorDepthStencil" ->
            withColorDepthStencil(width, height, color, depth)

\* The arguments each variant takes: no colour list for the depth-only
\* variants, no depth texture for withColor.
ConstructInputs ==
    {<<v, w, h, c, d>> \in Variants \X Dims \X Dims \X ColorLists \X (Textures \cup {NoTexture}) :
        /\ (v \in {"withDepth", "withDepthStencil"}) => c = <<>>
        /\ (v = "withColor") <=> (d = NoTexture)}

\* The constructions the lifecycle is explored with: two colour buffers,
\* a depth buffer alone, and two colour buffers with a depth-stencil buffer.
LifecycleInputs ==
    {<<"withColor", 1, 1, <<1, 2>>, NoTexture>>,
     <<"withDepth", 1, 2, <<>>, 3>>,
     <<"withColorDepthStencil", 1, 1, <<2, 1>>, 2>>}

----------------------------------------------------------------------------
(* Framebuffer: the object *)

Null == <<>>            \* an absent object reference
Some(x) == <<x>>

\* The fields the private constructor sets before it calls init().
NewFramebuffer(width, height, colors, depthStencil, depthOnly) ==
    [made |-> TRUE, width |-> width, height |-> height, colors |-> colors,
     depthStencil |-> depthStencil, depthOnly |-> depthOnly,
     glColorAttachments |-> [i \in 1..Len(colors) |-> COLOR_ATTACHMENT0 + (i - 1)],
     glFramebuffer |-> NullHandle, framebufferTarget |-> Null]

NoFramebuffer ==
    [made |-> FALSE, width |-> 0, height |-> 0, colors |-> <<>>,
     depthStencil |-> NoTexture, depthOnly |-> TRUE, glColorAttachments |-> <<>>,
     glFramebuffer |-> NullHandle, framebufferTarget |-> Null]

\* The gl.framebufferTexture2D calls of init(): one per colour buffer.
AttachColors(f) ==
    [i \in 1..Len(f.colors) |->
        Ev("framebufferTexture2D", COLOR_ATTACHMENT0 + (i - 1), f.colors[i])]

AttachDepthStencil(f) ==
    IF f.depthStencil # NoTexture
    THEN <<Ev("framebufferTexture2D",
              IF f.depthOnly THEN DEPTH_ATTACHMENT ELSE DEPTH_STENCIL_ATTACHMENT,
              f.depthStencil)>>
    ELSE <<>>

\* What init() leaves behind.
InitResult(outcome, f, s, bound, live, nh, status, trace) ==
    [outcome |-> outcome, fb |-> f, stack |-> s, bound |-> bound, live |-> live,
     nextHandle |-> nh, status |-> status, trace |-> trace]

\* init() that forgets stackDrawFramebuffer.pop().
InitStackPopForgotten(s) == s

\* The stack after init()'s attachments and completeness check.
InitStackPop(s) == StackPop(s)

\* init() recording the new object before it looks at the status.
InitFinishRecordsFirst(f, fbo, s, live, nh, status, trace) ==
    IF status # "FRAMEBUFFER_COMPLETE"
    THEN InitResult("Framebuffer not complete", [f EXCEPT !.glFramebuffer = fbo],
                    s, Top(s), live \ {fbo}, nh, status,
                    trace \o <<Ev("deleteFramebuffer", fbo, 0), Ev("throw", 0, 0)>>)
    ELSE InitResult("ok",
                    [f EXCEPT !.glFramebuffer = fbo,
                              !.framebufferTarget =
                                  IF fbo # NullHandle
                                  THEN Some(NewTarget(f.glColorAttachments, fbo,
                                                      f.width, f.height))
                                  ELSE f.framebufferTarget],
                    s, Top(s), live, nh, status, trace)

\* The tail of init(): what follows stackDrawFramebuffer.pop().
InitFinish(f, fbo, s, live, nh, status, trace) ==
    IF status # "FRAMEBUFFER_COMPLETE"
    THEN InitResult("Framebuffer not complete", f, s, Top(s), live \ {fbo}, nh, status,
                    trace \o <<Ev("deleteFramebuffer", fbo, 0), Ev("throw", 0, 0)>>)
    ELSE IF fbo # NullHandle
    THEN InitResult("ok",
                    [f EXCEPT !.glFramebuffer = fbo,
                              !.framebufferTarget =
                                  Some(NewTarget(f.glColorAttachments, fbo,
                                                 f.width, f.height))],
                    s, Top(s), live, nh, status, trace \o <<Ev("new Target", fbo, 0)>>)
    ELSE InitResult("ok", [f EXCEPT !.glFramebuffer = fbo],
                    s, Top(s), live, nh, status, trace)

\* Framebuffer.init() on object f.  The driver answers createOk (an object
\* or null), depthArgOk (whether framebufferTexture2D accepts the Texture
\* wrapper it is handed for the depth attachment, or raises a TypeError)
\* and status.
FramebufferInit(f, s, live, nh, createOk, depthArgOk, status) ==
    LET fbo == IF createOk THEN nh ELSE NullHandle
        nh1 == IF createOk THEN nh + 1 ELSE nh
        live1 == IF createOk THEN live \cup {fbo} ELSE live
        s1 == StackPush(s, fbo)
        t1 == <<Ev("createFramebuffer", fbo, 0), Ev("push", fbo, 0)>>
              \o AttachColors(f) \o AttachDepthStencil(f)
    IN  IF f.depthStencil # NoTexture /\ ~depthArgOk
        THEN InitResult("TypeError", f, s1, fbo, live1, nh1, "none",
                        t1 \o <<Ev("throw", 0, 0)>>)
        ELSE InitFinish(f, fbo, InitStackPop(s1), live1, nh1, status,
                        t1 \o <<Ev("checkFramebufferStatus", 0, 0), Ev("pop", 0, 0)>>)

\* gl.isFramebuffer(glFramebuffer)
IsFramebuffer(live, h) == h # NullHandle /\ h \in live

\* The attachments' restore() calls of Framebuffer.restore(), in call order.
RestoreAttachments(f) ==
    [i \in 1..Len(f.colors) |-> Ev("restore", f.colors[i], 0)]
    \o (IF f.depthStencil # NoTexture THEN <<Ev("restore", f.depthStencil, 0)>> ELSE <<>>)

\* restore() that reinitialises whatever the driver says.
RestoreAlwaysInit(f, live) == TRUE

\* Whether Framebuffer.restore() re-runs init().
RestoreNeedsInit(f, live) == ~IsFramebuffer(live, f.glFramebuffer)

\* restore() asking the driver, and reinitialising, before it restores the
\* attachments.
FramebufferRestoreCheckFirst(f, s, live, nh, createOk, depthArgOk, status) ==
    LET t0 == <<Ev("isFramebuffer", f.glFramebuffer,
                   IF IsFramebuffer(live, f.glFramebuffer) THEN 1 ELSE 0)>>
    IN  IF ~IsFramebuffer(live, f.glFramebuffer)
        THEN LET r == FramebufferInit(f, s, live, nh, createOk, depthArgOk, status)
             IN  [r EXCEPT !.trace = t0 \o r.trace \o RestoreAttachments(f)]
        ELSE InitResult("ok", f, s, Top(s), live, nh, "none", t0 \o RestoreAttachments(f))

\* Framebuffer.restore() on object f.
FramebufferRestore(f, s, live, nh, createOk, depthArgOk, status) ==
    LET t0 == RestoreAttachments(f)
              \o <<Ev("isFramebuffer", f.glFramebuffer,
                      IF IsFramebuffer(live, f.glFramebuffer) THEN 1 ELSE 0)>>
    IN  IF RestoreNeedsInit(f, live)
        THEN LET r == FramebufferInit(f, s, live, nh, createOk, depthArgOk, status)
             IN  [r EXCEPT !.trace = t0 \o r.trace]
        ELSE InitResult("ok", f, s, Top(s), live, nh, "none", t0)

----------------------------------------------------------------------------
(* The report of the last Framebuffer operation *)

Report(op, input, outcome, before, r, ranCallback) ==
    [op |-> op, input |-> input, outcome |-> outcome,
     stackBefore |-> stackDrawFramebuffer, boundBefore |-> glDrawFramebuffer,
     liveBefore |-> glFramebuffers,
     objBefore |-> before, objAfter |-> r.fb,
     status |-> r.status, trace |-> r.trace, ranCallback |-> ranCallback]

NoInput == <<"none", 0, 0, <<>>, NoTexture>>

Untouched(f) ==
    InitResult("ok", f, stackDrawFramebuffer, glDrawFramebuffer, glFramebuffers,
               nextHandle, "none", <<>>)

Apply(r) ==
    /\ stackDrawFramebuffer' = r.stack
    /\ glDrawFramebuffer' = r.bound
    /\ glFramebuffers' = r.live
    /\ nextHandle' = r.nextHandle

\* init() may run: the model has a handle and a stack slot left for it.
CanInit == nextHandle <= MaxHandles /\ Len(stackDrawFramebuffer) <= MaxStack

----------------------------------------------------------------------------
(* Framebuffer: operations *)

\* What the driver may answer during one init() of object f: answers that
\* init() never asks for are not enumerated.
DriverAnswers(f) ==
    {d \in [createOk : BOOLEAN, depthArgOk : BOOLEAN, status : Statuses] :
        /\ (f.depthStencil = NoTexture) => d.depthArgOk
        /\ (~d.depthArgOk) => d.status = "FRAMEBUFFER_COMPLETE"}

\* Framebuffer.withColor / withDepth / withDepthStencil / withColorDepth /
\* withColorDepthStencil with arguments in: validate, then new Framebuffer(...)
\* which runs init().  A construction that throws hands no object to the caller.
ConstructWith(in) ==
    LET v == Validate(in[1], in[2], in[3], in[4], in[5])
        f == NewFramebuffer(in[2], in[3], v.colors, v.depthStencil, v.depthOnly)
    IN  /\ IF v.check # "ok"
           THEN /\ last' = Report("construct", in, v.check, NoFramebuffer,
                                  Untouched(NoFramebuffer), FALSE)
                /\ UNCHANGED <<stackDrawFramebuffer, glDrawFramebuffer, glFramebuffers,
                               nextHandle, fb>>
           ELSE \E d \in DriverAnswers(f) :
                   LET r == FramebufferInit(f, stackDrawFramebuffer, glFramebuffers,
                                            nextHandle, d.createOk, d.depthArgOk,
                                            d.status)
                   IN  /\ Apply(r)
                       /\ fb' = IF r.outcome = "ok" THEN r.fb ELSE fb
                       /\ last' = Report("construct", in, r.outcome, f, r, FALSE)
        /\ UNCHANGED <<openScopes, cmdVars>>

\* Any construction, as the first thing the program does with the device.
ConstructFirst ==
    /\ last.op = "none"
    /\ CanInit
    /\ \E in \in ConstructInputs : ConstructWith(in)

\* A construction at any later time.
Construct ==
    /\ CanInit
    /\ \E in \in LifecycleInputs : ConstructWith(in)

\* framebuffer.init(): forced reinitialisation of the existing object.
ForceInit ==
    /\ fb.made
    /\ CanInit
    /\ \E d \in DriverAnswers(fb) :
        LET r == FramebufferInit(fb, stackDrawFramebuffer, glFramebuffers,
                                 nextHandle, d.createOk, d.depthArgOk, d.status)
        IN  /\ Apply(r)
            /\ fb' = r.fb
            /\ last' = Report("init", NoInput, r.outcome, fb, r, FALSE)
    /\ UNCHANGED <<openScopes, cmdVars>>

\* framebuffer.restore()
Restore ==
    /\ fb.made
    /\ RestoreNeedsInit(fb, glFramebuffers) => CanInit
    /\ \E d \in DriverAnswers(fb) :
        /\ (~RestoreNeedsInit(fb, glFramebuffers)) =>
               (d.createOk /\ d.depthArgOk /\ d.status = "FRAMEBUFFER_COMPLETE")
        /\ LET r == FramebufferRestore(fb, stackDrawFramebuffer, glFramebuffers,
                                       nextHandle, d.createOk, d.depthArgOk, d.status)
           IN  /\ Apply(r)
               /\ fb' = r.fb
               /\ last' = Report("restore", NoInput, r.outcome, fb, r, FALSE)
    /\ UNCHANGED <<openScopes, cmdVars>>

\* framebuffer.target(cb), up to the point where cb runs: with a Target it
\* enters Target.with (the target's framebuffer is pushed); without one it
\* returns at once and cb never runs.
FramebufferTarget ==
    /\ fb.made
    /\ IF fb.framebufferTarget # Null
       THEN /\ Len(stackDrawFramebuffer) < MaxStack
            /\ stackDrawFramebuffer' =
                   StackPush(stackDrawFramebuffer, fb.framebufferTarget[1].glFramebuffer)
            /\ glDrawFramebuffer' = fb.framebufferTarget[1].glFramebuffer
            /\ openScopes' = openScopes + 1
            /\ last' = Report("target", NoInput, "ok", fb, Untouched(fb), TRUE)
       ELSE /\ last' = Report("target", NoInput, "ok", fb, Untouched(fb), FALSE)
            /\ UNCHANGED <<stackDrawFramebuffer, glDrawFramebuffer, openScopes>>
    /\ UNCHANGED <<glFramebuffers, nextHandle, fb, cmdVars>>

\* device.target(cb), up to the point where cb runs: the default surface is pushed.
DeviceTarget ==
    /\ Len(stackDrawFramebuffer) < MaxStack
    /\ stackDrawFramebuffer' = StackPush(stackDrawFramebuffer, NullHandle)
    /\ glDrawFramebuffer' = NullHandle
    /\ openScopes' = openScopes + 1
    /\ last' = Report("with", NoInput, "ok", fb, Untouched(fb), TRUE)
    /\ UNCHANGED <<glFramebuffers, nextHandle, fb, cmdVars>>

\* The callback of the innermost Target.with returns: the stack is popped.
ExitTarget ==
    /\ openScopes > 0
    /\ Len(stackDrawFramebuffer) > 1
    /\ stackDrawFramebuffer' = StackPop(stackDrawFramebuffer)
    /\ glDrawFramebuffer' = Top(StackPop(stackDrawFramebuffer))
    /\ openScopes' = openScopes - 1
    /\ last' = Report("exit", NoInput, "ok", fb, Untouched(fb), FALSE)
    /\ UNCHANGED <<glFramebuffers, nextHandle, fb, cmdVars>>

\* The context is lost and restored between two frames: every framebuffer
\* object becomes invalid.
ContextLost ==
    /\ openScopes = 0
    /\ Len(stackDrawFramebuffer) = 1
    /\ glFramebuffers # {}
    /\ glFramebuffers' = {}
    /\ last' = Report("contextLost", NoInput, "ok", fb, Untouched(fb), FALSE)
    /\ UNCHANGED <<stackDrawFramebuffer, glDrawFramebuffer, nextHandle, openScopes,
                   fb, cmdVars>>

----------------------------------------------------------------------------
(* Command: values *)

TEXTURE0 == 33984
TEXTURE_2D == 3553
UNSIGNED_INT == 5125
COLOR_BUFFER_BIT == 16384
DEPTH_BUFFER_BIT == 256
STENCIL_BUFFER_BIT == 1024
GL_FALSE == 0           \* the transpose argument of uniformMatrix*fv

Primitives == {"triangles", "triangle-strip", "triangle-fan", "points",
               "lines", "line-strip", "line-loop"}

UniformTypes ==
    {"1f", "1fv", "1i", "1iv", "1ui", "1uiv",
     "2f", "2fv", "2i", "2iv", "2ui", "2uiv",
     "3f", "3fv", "3i", "3iv", "3ui", "3uiv",
     "4f", "4fv", "4i", "4iv", "4ui", "4uiv",
     "matrix2fv", "matrix3fv", "matrix4fv", "texture"}

\* A call made on the GL context (or on a collaborator), with its arguments.
Call(fn, args) == [fn |-> fn, args |-> args]

mapGlPrimitive(primitive) ==
    CASE primitive = "triangles" -> 4
      [] primitive = "triangle-strip" -> 5
      [] primitive = "triangle-fan" -> 6
      [] primitive = "points" -> 0
      [] primitive = "lines" -> 1
      [] primitive = "line-strip" -> 3
      [] primitive = "line-loop" -> 2

\* a | b on non-negative integers
RECURSIVE BitOr(_, _)
BitOr(a, b) ==
    IF a = 0 THEN b
    ELSE IF b = 0 THEN a
    ELSE (IF a % 2 = 1 \/ b % 2 = 1 THEN 1 ELSE 0) + 2 * BitOr(a \div 2, b \div 2)

ClearInfo(color, depth, stencil) == [color |-> color, depth |-> depth, stencil |-> stencil]

UniformInfo(identifier, location, definition) ==
    [identifier |-> identifier, location |-> location, definition |-> definition]

\* A uniform's value: a static value, or an accessor called with the props.
\* Static value v stands for the number v, the array <<v, v + 1, ...>> or the
\* texture v, as the uniform's type requires; accessor v computes that from
\* props + v.
Value(isFunction, v) == [isFunction |-> isFunction, v |-> v]

\* The number of components an array value of the type carries.
Components(type) ==
    CASE type \in {"1f", "1i", "1ui", "1fv", "1iv", "1uiv", "texture"} -> 1
      [] type \in {"2f", "2i", "2ui", "2fv", "2iv", "2uiv"} -> 2
      [] type \in {"3f", "3i", "3ui", "3fv", "3iv", "3uiv"} -> 3
      [] type \in {"4f", "4i", "4ui", "4fv", "4iv", "4uiv", "matrix2fv"} -> 4
      [] type = "matrix3fv" -> 9
      [] type = "matrix4fv" -> 16
      [] OTHER -> 1

\* access() using a function value as it is, without calling it.
accessUncalled(props, value, type) ==
    [i \in 1..Components(type) |-> value.v + (i - 1)]

\* access(props, value): the value the uniform is set to in this draw.
access(props, value, type) ==
    LET base == IF value.isFunction THEN props + value.v ELSE value.v
    IN  [i \in 1..Components(type) |-> base + (i - 1)]

\* The accessor invocation access() makes, if the value is a function.
AccessorCalls(props, value) ==
    IF value.isFunction THEN <<Call("accessor", <<value.v, props>>)>> ELSE <<>>

----------------------------------------------------------------------------
(* Command.updateUniforms *)

\* The dispatch done by name, gl["uniform" + type]: it has no function for
\* the matrix tags.
UniformCallByName(type, loc, val) == Call("uniform" \o type, <<loc>> \o val)

\* The switch on def.type for every type but "texture": one GL call.
UniformCall(type, loc, val) ==
    CASE type = "1f" -> Call("uniform1f", <<loc, val[1]>>)
      [] type = "1fv" -> Call("uniform1fv", <<loc>> \o val)
      [] type = "1i" -> Call("uniform1i", <<loc, val[1]>>)
      [] type = "1iv" -> Call("uniform1iv", <<loc>> \o val)
      [] type = "1ui" -> Call("uniform1ui", <<loc, val[1]>>)
      [] type = "1uiv" -> Call("uniform1uiv", <<loc>> \o val)
      [] type = "2f" -> Call("uniform2f", <<loc, val[1], val[2]>>)
      [] type = "2fv" -> Call("uniform2fv", <<loc>> \o val)
      [] type = "2i" -> Call("uniform2i", <<loc, val[1], val[2]>>)
      [] type = "2iv" -> Call("uniform2iv", <<loc>> \o val)
      [] type = "2ui" -> Call("uniform2ui", <<loc, val[1], val[2]>>)
      [] type = "2uiv" -> Call("uniform2uiv", <<loc>> \o val)
      [] type = "3f" -> Call("uniform3f", <<loc, val[1], val[2], val[3]>>)
      [] type = "3fv" -> Call("uniform3fv", <<loc>> \o val)
      [] type = "3i" -> Call("uniform3i", <<loc, val[1], val[2], val[3]>>)
      [] type = "3iv" -> Call("uniform3iv", <<loc>> \o val)
      [] type = "3ui" -> Call("uniform3ui", <<loc, val[1], val[2], val[3]>>)
      [] type = "3uiv" -> Call("uniform3uiv", <<loc>> \o val)
      [] type = "4f" -> Call("uniform4f", <<loc, val[1], val[2], val[3], val[4]>>)
      [] type = "4fv" -> Call("uniform4fv", <<loc>> \o val)
      [] type = "4i" -> Call("uniform4i", <<loc, val[1], val[2], val[3], val[4]>>)
      [] type = "4iv" -> Call("uniform4iv", <<loc>> \o val)
      [] type = "4ui" -> Call("uniform4ui", <<loc, val[1], val[2], val[3], val[4]>>)
      [] type = "4uiv" -> Call("uniform4uiv", <<loc>> \o val)
      [] type = "matrix2fv" -> Call("uniformMatrix2fv", <<loc, GL_FALSE>> \o val)
      [] type = "matrix3fv" -> Call("uniformMatrix3fv", <<loc, GL_FALSE>> \o val)
      [] type = "matrix4fv" -> Call("uniformMatrix4fv", <<loc, GL_FALSE>> \o val)
      [] OTHER -> Call("assert.never", <<loc>>)

\* case "texture": select the unit, bind the texture, point the sampler at it.
TextureCalls(loc, val, currentTexture) ==
    <<Call("activeTexture", <<TEXTURE0 + currentTexture>>),
      Call("bindTexture", <<TEXTURE_2D, val[1]>>),
      Call("uniform1i", <<loc, currentTexture>>)>>

\* updateUniforms() advancing the texture unit on every binding.
RECURSIVE UpdateUniformsEveryBinding(_, _, _, _)
UpdateUniformsEveryBinding(uniformInfo, i, props, textureUnitOffset) ==
    IF i > Len(uniformInfo) THEN <<>>
    ELSE LET loc == uniformInfo[i].location
             def == uniformInfo[i].definition
             val == [k \in 1..Components(def.type) |->
                        (IF def.value.isFunction THEN props + def.value.v
                         ELSE def.value.v) + (k - 1)]
         IN  (IF def.value.isFunction THEN <<Call("accessor", <<def.value.v, props>>)>>
              ELSE <<>>)
             \o (IF def.type = "texture"
                 THEN TextureCalls(loc, val, textureUnitOffset)
                 ELSE <<UniformCall(def.type, loc, val)>>)
             \o UpdateUniformsEveryBinding(uniformInfo, i + 1, props, textureUnitOffset + 1)

\* The forEach over this.uniformInfo from binding i on.
RECURSIVE UpdateUniformsFrom(_, _, _, _)
UpdateUniformsFrom(uniformInfo, i, props, textureUnitOffset) ==
    IF i > Len(uniformInfo) THEN <<>>
    ELSE LET loc == uniformInfo[i].location
             def == uniformInfo[i].definition
             val == access(props, def.value, def.type)
         IN  IF def.type = "texture"
             THEN AccessorCalls(props, def.value)
                  \o TextureCalls(loc, val, textureUnitOffset)
                  \o UpdateUniformsFrom(uniformInfo, i + 1, props, textureUnitOffset + 1)
             ELSE AccessorCalls(props, def.value)
                  \o <<UniformCall(def.type, loc, val)>>
                  \o UpdateUniformsFrom(uniformInfo, i + 1, props, textureUnitOffset)

updateUniforms(uniformInfo, props) == UpdateUniformsFrom(uniformInfo, 1, props, 0)

----------------------------------------------------------------------------
(* Command.clear and Command.draw *)

\* Command.clear(): the clear values the command declares, then one gl.clear
\* of their bits if there is any.
ClearBits(clearInfo) ==
    BitOr(BitOr(IF clearInfo.color # Null THEN COLOR_BUFFER_BIT ELSE 0,
                IF clearInfo.depth # Null THEN DEPTH_BUFFER_BIT ELSE 0),
          IF clearInfo.stencil # Null THEN STENCIL_BUFFER_BIT ELSE 0)

\* clear() testing the clear values for truthiness: a depth or stencil of 0
\* counts as not declared.
clearTruthy(clearInfo) ==
    LET depth == clearInfo.depth # Null /\ clearInfo.depth # Some(<<0>>)
        stencil == clearInfo.stencil # Null /\ clearInfo.stencil # Some(<<0>>)
        bits == (IF clearInfo.color # Null THEN COLOR_BUFFER_BIT ELSE 0)
                + (IF depth THEN DEPTH_BUFFER_BIT ELSE 0)
                + (IF stencil THEN STENCIL_BUFFER_BIT ELSE 0)
    IN  (IF clearInfo.color # Null THEN <<Call("clearColor", clearInfo.color[1])>> ELSE <<>>)
        \o (IF depth THEN <<Call("clearDepth", clearInfo.depth)>> ELSE <<>>)
        \o (IF stencil THEN <<Call("clearStencil", clearInfo.stencil)>> ELSE <<>>)
        \o (IF bits # 0 THEN <<Call("clear", <<bits>>)>> ELSE <<>>)

clear(clearInfo) ==
    (IF clearInfo.color # Null THEN <<Call("clearColor", clearInfo.color[1])>> ELSE <<>>)
    \o (IF clearInfo.depth # Null THEN <<Call("clearDepth", clearInfo.depth)>> ELSE <<>>)
    \o (IF clearInfo.stencil # Null THEN <<Call("clearStencil", clearInfo.stencil)>> ELSE <<>>)
    \o (IF ClearBits(clearInfo) # 0 THEN <<Call("clear", <<ClearBits(clearInfo)>>)>> ELSE <<>>)

\* draw() reading 16-bit indices and never instancing indexed geometry.
drawShortIndices(glPrimitive, hasElements, count, instCount) ==
    IF hasElements
    THEN <<Call("drawElements", <<glPrimitive, count, 5123, 0>>)>>
    ELSE IF instCount # 0
         THEN <<Call("drawArraysInstanced", <<glPrimitive, 0, count, instCount>>)>>
         ELSE <<Call("drawArrays", <<glPrimitive, 0, count>>)>>

\* Command.draw(hasElements, count, instCount)
draw(glPrimitive, hasElements, count, instCount) ==
    IF hasElements
    THEN IF instCount # 0
         THEN <<Call("drawElementsInstanced",
                     <<glPrimitive, count, UNSIGNED_INT, 0, instCount>>)>>
         ELSE <<Call("drawElements", <<glPrimitive, count, UNSIGNED_INT, 0>>)>>
    ELSE IF instCount # 0
         THEN <<Call("drawArraysInstanced", <<glPrimitive, 0, count, instCount>>)>>
         ELSE <<Call("drawArrays", <<glPrimitive, 0, count>>)>>

----------------------------------------------------------------------------
(* Command: the object and its operations *)

MaxDraws == 2       \* draws executed with one command

Idents == {"u_a", "u_b", "u_c"}

\* gl.getUniformLocation(program, identifier): a location object for an
\* active uniform of the program, null otherwise.
NullLocation == 0

LocationOf(identifier) ==
    CASE identifier = "u_a" -> 11
      [] identifier = "u_b" -> 12
      [] identifier = "u_c" -> 13

getUniformLocation(program, identifier) ==
    IF identifier \in program.active THEN LocationOf(identifier) ELSE NullLocation

NoCommand ==
    [made |-> FALSE, glProgram |-> 0, glPrimitive |-> 0, uniformInfo |-> <<>>,
     clearInfo |-> ClearInfo(Null, Null, Null)]

NewCommand(glProgram, glPrimitive, uniformInfo, clearInfo) ==
    [made |-> TRUE, glProgram |-> glProgram, glPrimitive |-> glPrimitive,
     uniformInfo |-> uniformInfo, clearInfo |-> clearInfo]

\* create() without the check of the location.
FirstUnlocatedUnchecked(program, uniforms, i) == 0

\* The index of the first declared uniform without a location, 0 if none.
RECURSIVE FirstUnlocated(_, _, _)
FirstUnlocated(program, uniforms, i) ==
    IF i > Len(uniforms) THEN 0
    ELSE IF getUniformLocation(program, uniforms[i].identifier) = NullLocation THEN i
    ELSE FirstUnlocated(program, uniforms, i + 1)

\* Object.entries(uniforms).map(...): one UniformInfo per entry.
LocateUniforms(program, uniforms) ==
    [i \in 1..Len(uniforms) |->
        UniformInfo(uniforms[i].identifier,
                    getUniformLocation(program, uniforms[i].identifier),
                    [type |-> uniforms[i].type, value |-> uniforms[i].value])]

\* Command.create(gl, props) against the program the shaders link to.
\* Yields the error thrown, or "ok" and the Command.
CommandCreate(program, props) ==
    IF FirstUnlocated(program, props.uniforms, 1) # 0
    THEN [outcome |-> "No location for uniform",
          identifier |-> props.uniforms[FirstUnlocated(program, props.uniforms, 1)].identifier,
          command |-> NoCommand]
    ELSE [outcome |-> "ok", identifier |-> "",
          command |-> NewCommand(program.handle, mapGlPrimitive(props.primitive),
                                 LocateUniforms(program, props.uniforms),
                                 ClearInfo(props.clear.color, props.clear.depth,
                                           props.clear.stencil))]

\* Command.execute(vao, props, framebuffer): the calls it makes, in order.
\* framebuffer is Null or Some(framebuffer).
execute(c, drawingBuffer, vao, props, framebuffer) ==
    LET bufferWidth == IF framebuffer # Null THEN framebuffer[1].width
                       ELSE drawingBuffer.width
        bufferHeight == IF framebuffer # Null THEN framebuffer[1].height
                        ELSE drawingBuffer.height
    IN  <<Call("useProgram", <<c.glProgram>>)>>
        \o updateUniforms(c.uniformInfo, props)
        \o <<Call("bindVertexArray", <<vao.glVertexArrayObject>>)>>
        \o (IF framebuffer # Null
            THEN <<Call("framebuffer.bind", <<framebuffer[1].handle>>),
                   Call("drawBuffers", framebuffer[1].colorAttachments)>>
            ELSE <<>>)
        \o clear(c.clearInfo)
        \o <<Call("viewport", <<0, 0, bufferWidth, bufferHeight>>)>>
        \o draw(c.glPrimitive, vao.hasElements, vao.count, vao.instanceCount)
        \o (IF framebuffer # Null
            THEN <<Call("framebuffer.unbind", <<framebuffer[1].handle>>)>>
            ELSE <<>>)
        \o <<Call("bindVertexArray", <<NullHandle>>)>>

\* The GL state a sequence of calls leaves, starting from state g.
RECURSIVE GlAfter(_, _, _)
GlAfter(g, calls, i) ==
    IF i > Len(calls) THEN g
    ELSE LET c == calls[i]
         IN  GlAfter(CASE c.fn = "useProgram" -> [g EXCEPT !.program = c.args[1]]
                       [] c.fn = "bindVertexArray" -> [g EXCEPT !.vertexArray = c.args[1]]
                       [] c.fn = "activeTexture" -> [g EXCEPT !.activeTexture = c.args[1]]
                       [] c.fn = "viewport" -> [g EXCEPT !.viewport = c.args]
                       [] OTHER -> g,
                     calls, i + 1)

----------------------------------------------------------------------------
(* Command.locate *)

MaxAttributes == 2      \* entries of the attribute map handed to locate

UNKNOWN_ATTRIB_LOCATION == -1

\* Identifiers are sequences of characters.
DigitChars == <<"0", "1", "2", "3", "4", "5", "6", "7", "8", "9">>

IsDigit(c) == \E i \in DOMAIN DigitChars : DigitChars[i] = c

IsNonZeroDigit(c) == \E i \in 2..Len(DigitChars) : DigitChars[i] = c

\* INT_PATTERN.test(identifier) for /^0|[1-9]\d*$/ : the alternatives are
\* "^0" (a "0" at the start) and "[1-9]\d*$" (a non-zero digit followed by
\* digits up to the end); test() searches the whole string for either.
INT_PATTERN(identifier) ==
    \/ Len(identifier) >= 1 /\ identifier[1] = "0"
    \/ \E i \in 1..Len(identifier) :
          /\ IsNonZeroDigit(identifier[i])
          /\ \A j \in (i + 1)..Len(identifier) : IsDigit(identifier[j])

\* The property key a number is converted to: its decimal digits.
RECURSIVE ToKey(_)
ToKey(n) ==
    IF n < 10 THEN <<DigitChars[n + 1]>>
    ELSE ToKey(n \div 10) \o <<DigitChars[(n % 10) + 1]>>

\* gl.getAttribLocation(glProgram, identifier): the location of an active
\* attribute of the program, -1 otherwise.  table maps the program's active
\* attributes to their locations.
getAttribLocation(table, identifier) ==
    IF identifier \in DOMAIN table THEN table[identifier] ELSE UNKNOWN_ATTRIB_LOCATION

\* accum[key] = definition
Put(accum, key, definition) ==
    [k \in (DOMAIN accum) \cup {key} |-> IF k = key THEN definition ELSE accum[k]]

\* The reduce over Object.entries(attributes) from entry i on.
RECURSIVE LocateFrom(_, _, _, _)
LocateFrom(table, attributes, i, accum) ==
    IF i > Len(attributes)
    THEN [outcome |-> "ok", identifier |-> <<>>, attributes |-> accum]
    ELSE LET identifier == attributes[i][1]
             definition == attributes[i][2]
             location == getAttribLocation(table, identifier)
         IN  IF INT_PATTERN(identifier)
             THEN LocateFrom(table, attributes, i + 1, Put(accum, identifier, definition))
             ELSE IF location = UNKNOWN_ATTRIB_LOCATION
                  THEN [outcome |-> "No location for attrib", identifier |-> identifier,
                        attributes |-> <<>>]
                  ELSE LocateFrom(table, attributes, i + 1,
                                  Put(accum, ToKey(location), definition))

\* Command.locate({ attributes, elements }): the error thrown, or "ok" and
\* the located props.
locate(table, props) ==
    LET r == LocateFrom(table, props.attributes, 1, <<>>)
    IN  [outcome |-> r.outcome, identifier |-> r.identifier,
         attributes |-> r.attributes, elements |-> props.elements]

----------------------------------------------------------------------------
(* Command: inputs *)

\* The canvas: gl.drawingBufferWidth x gl.drawingBufferHeight.
DrawingBuffer == [width |-> 4, height |-> 3]

\* The programs the shader pair may link to: which of the identifiers are
\* active uniforms.
Programs == [handle : {7}, active : SUBSET Idents]

UniformValues == {Value(FALSE, 5), Value(TRUE, 20)}

Entry(identifier, type, value) == [identifier |-> identifier, type |-> type, value |-> value]

\* Uniform declarations in Object.entries order: no identifier twice.
RECURSIVE EntryLists(_, _)
EntryLists(idents, types) ==
    {<<>>} \cup
    UNION {{<<Entry(id, t, v)>> \o rest : rest \in EntryLists(idents \ {id}, types)} :
             <<id, t, v>> \in idents \X types \X UniformValues}

ClearConfigs ==
    [color : {Null, Some(<<1, 0, 0, 1>>)}, depth : {Null, Some(<<0>>), Some(<<1>>)},
     stencil : {Null, Some(<<0>>)}]

NoClear == [color |-> Null, depth |-> Null, stencil |-> Null]

CommandProps(uniforms, primitive, clearConfig) ==
    [uniforms |-> uniforms, primitive |-> primitive, clear |-> clearConfig]

\* The commands explored: up to three uniforms that are textures or floats,
\* with the default primitive and no clear; one uniform of any type; and no
\* uniform with any primitive and any clear configuration.
CreateInputs ==
    {CommandProps(u, "triangles", NoClear) : u \in EntryLists(Idents, {"1f", "texture"})}
    \cup {CommandProps(<<Entry("u_a", t, v)>>, "triangles", NoClear) :
             <<t, v>> \in UniformTypes \X UniformValues}
    \cup {CommandProps(<<>>, p, c) : <<p, c>> \in Primitives \X ClearConfigs}

VertexArrays ==
    {[glVertexArrayObject |-> 1, hasElements |-> FALSE, count |-> 3, instanceCount |-> 0],
     [glVertexArrayObject |-> 2, hasElements |-> TRUE, count |-> 6, instanceCount |-> 0],
     [glVertexArrayObject |-> 3, hasElements |-> FALSE, count |-> 3, instanceCount |-> 2],
     [glVertexArrayObject |-> 4, hasElements |-> TRUE, count |-> 6, instanceCount |-> 1]}

PropsValues == {1, 2}

\* The framebuffer argument of execute: absent, or an off-screen surface.
ExecuteFramebuffers ==
    {Null, Some([handle |-> 9, width |-> 2, height |-> 1,
                 colorAttachments |-> <<COLOR_ATTACHMENT0>>])}

NoRun ==
    [op |-> "none", createProps |-> CommandProps(<<>>, "triangles", NoClear),
     program |-> [handle |-> 7, active |-> {}],
     outcome |-> "ok", identifier |-> "",
     vao |-> [glVertexArrayObject |-> 0, hasElements |-> FALSE, count |-> 0,
              instanceCount |-> 0],
     props |-> 0, previous |-> 0, framebuffer |-> Null, calls |-> <<>>,
     table |-> <<>>, attributes |-> <<>>, elements |-> Null, key |-> <<>>,
     located |-> <<>>, locatedElements |-> Null]

InitialGl == [program |-> 0, vertexArray |-> NullHandle, activeTexture |-> TEXTURE0,
              viewport |-> <<0, 0, DrawingBuffer.width, DrawingBuffer.height>>]

----------------------------------------------------------------------------
(* Command: actions *)

\* Command.create: the program builds its command once.
Create ==
    /\ run.op = "none"
    /\ \E props \in CreateInputs, program \in Programs :
        LET r == CommandCreate(program, props)
        IN  /\ cmd' = r.command
            /\ run' = [NoRun EXCEPT !.op = "create", !.createProps = props,
                                    !.program = program, !.outcome = r.outcome,
                                    !.identifier = r.identifier]
    /\ UNCHANGED <<gl, drawsDone, fbVars>>

\* cmd.execute(vao, props, framebuffer)
Execute ==
    /\ cmd.made
    /\ drawsDone < MaxDraws
    /\ \E vao \in VertexArrays, props \in PropsValues, framebuffer \in ExecuteFramebuffers :
        LET calls == execute(cmd, DrawingBuffer, vao, props, framebuffer)
        IN  /\ gl' = GlAfter(gl, calls, 1)
            /\ run' = [NoRun EXCEPT !.op = "execute", !.vao = vao, !.props = props,
                                    !.previous = run.props,
                                    !.framebuffer = framebuffer, !.calls = calls]
    /\ drawsDone' = drawsDone + 1
    /\ UNCHANGED <<cmd, fbVars>>

----------------------------------------------------------------------------
(* Command.locate: inputs and actions *)

\* Attribute keys: integer keys, attribute names, and names with digits.
Keys == {<<"0">>, <<"1">>, <<"1", "0">>, <<"0", "1">>,
         <<"a">>, <<"a", "1">>, <<"a", "0">>, <<"0", "a">>}

\* The attributes the shader pair may declare, and the locations they may get.
AttribNames == {<<"a">>, <<"a", "1">>}

AttribLocations == {0, 1, 10}

\* The attribute tables a linked program may have: some of the names are
\* active, no two at the same location.
AttribTables ==
    {t \in UNION {[names -> AttribLocations] : names \in SUBSET AttribNames} :
        \A m, n \in DOMAIN t : m # n => t[m] # t[n]}

\* A property key that is an array index: "0", or digits without a leading 0.
IsArrayIndex(key) ==
    /\ Len(key) >= 1
    /\ \A i \in 1..Len(key) : IsDigit(key[i])
    /\ (key[1] = "0" => Len(key) = 1)

DigitValue(c) == (CHOOSE i \in DOMAIN DigitChars : DigitChars[i] = c) - 1

RECURSIVE KeyNumber(_)
KeyNumber(key) ==
    IF Len(key) = 0 THEN 0
    ELSE 10 * KeyNumber(SubSeq(key, 1, Len(key) - 1)) + DigitValue(key[Len(key)])

\* Object.entries order: array-index keys ascending, then the other keys.
EntriesOrdered(keys) ==
    \A i, j \in 1..Len(keys) :
        i < j => /\ keys[i] # keys[j]
                 /\ IsArrayIndex(keys[j]) =>
                        IsArrayIndex(keys[i]) /\ KeyNumber(keys[i]) < KeyNumber(keys[j])

\* Object.entries(attributes) of the attribute maps explored: entry i holds
\* buffer i.
AttributeEntries ==
    {[i \in 1..Len(keys) |-> <<keys[i], i>>] :
        keys \in {ks \in UNION {[1..n -> Keys] : n \in 0..MaxAttributes} :
                     EntriesOrdered(ks)}}

ElementsValues == {Null, Some(<<0, 1, 2>>)}

\* Command.create of a command without uniforms.
CreatePlain ==
    /\ run.op = "none"
    /\ \E primitive \in Primitives :
        LET props == CommandProps(<<>>, primitive, NoClear)
            program == [handle |-> 7, active |-> {}]
            r == CommandCreate(program, props)
        IN  /\ cmd' = r.command
            /\ run' = [NoRun EXCEPT !.op = "create", !.createProps = props,
                                    !.program = program, !.outcome = r.outcome,
                                    !.identifier = r.identifier]
    /\ UNCHANGED <<gl, drawsDone, fbVars>>

\* cmd.locate({ attributes, elements }) on the freshly created command; the
\* driver answers getAttribLocation from the linked program's table.
Locate ==
    /\ cmd.made
    /\ run.op = "create"
    /\ \E table \in AttribTables, attributes \in AttributeEntries,
          elements \in ElementsValues :
        LET r == locate(table, [attributes |-> attributes, elements |-> elements])
        IN  run' = [NoRun EXCEPT !.op = "locate", !.table = table,
                                 !.attributes = attributes, !.elements = elements,
                                 !.outcome = r.outcome, !.key = r.identifier,
                                 !.located = r.attributes,
                                 !.locatedElements = r.elements]
    /\ UNCHANGED <<cmd, gl, drawsDone, fbVars>>

----------------------------------------------------------------------------
(* Specifications *)

InitFramebufferState ==
    /\ stackDrawFramebuffer = <<NullHandle>>
    /\ glDrawFramebuffer = NullHandle
    /\ glFramebuffers = {}
    /\ nextHandle = 1
    /\ openScopes = 0
    /\ fb = NoFramebuffer
    /\ last = [op |-> "none", input |-> NoInput, outcome |-> "ok",
               stackBefore |-> <<NullHandle>>, boundBefore |-> NullHandle,
               liveBefore |-> {},
               objBefore |-> NoFramebuffer, objAfter |-> NoFramebuffer,
               status |-> "none", trace |-> <<>>, ranCallback |-> FALSE]

InitCommandState ==
    /\ cmd = NoCommand
    /\ gl = InitialGl
    /\ drawsDone = 0
    /\ run = NoRun

Init == InitFramebufferState /\ InitCommandState

NextFramebuffer ==
    \/ Construct
    \/ ForceInit
    \/ Restore
    \/ FramebufferTarget
    \/ DeviceTarget
    \/ ExitTarget
    \/ ContextLost

SpecFramebuffer == Init /\ [][NextFramebuffer]_vars

NextConstruct == ConstructFirst

SpecConstruct == Init /\ [][NextConstruct]_vars

NextCommand ==
    \/ Create
    \/ Execute

SpecCommand == Init /\ [][NextCommand]_vars

NextLocate ==
    \/ CreatePlain
    \/ Locate

SpecLocate == Init /\ [][NextLocate]_vars

----------------------------------------------------------------------------
(* Properties *)

\* The positions of the events named op in a trace.
Positions(trace, op) == {i \in 1..Len(trace) : trace[i].op = op}

\* The last operation ran init() as far as gl.createFramebuffer().
InitRan == Positions(last.trace, "createFramebuffer") # {}

\* The object createFramebuffer returned to the last operation's init().
CreatedHandle == last.trace[CHOOSE i \in Positions(last.trace, "createFramebuffer") : TRUE].a

AnyMismatch(in) ==
    \/ \E i \in 1..Len(in[4]) : TexWidth[in[4][i]] # in[2] \/ TexHeight[in[4][i]] # in[3]
    \/ in[5] # NoTexture /\ (TexWidth[in[5]] # in[2] \/ TexHeight[in[5]] # in[3])

\* C2: a construction through any of the five variants with a mismatched
\* attachment fails, and gl.createFramebuffer has not been called.
C2_MismatchFailsBeforeCreation ==
    (last.op = "construct" /\ AnyMismatch(last.input)) =>
        /\ last.outcome \in {"equal", "nonEmpty"}
        /\ ~InitRan
        /\ nextHandle = 1
        /\ glFramebuffers = {}
        /\ ~fb.made

\* withColorDepthStencil where only the second colour buffer is too tall.
C2_Witness ==
    /\ last.op = "construct"
    /\ last.input[1] = "withColorDepthStencil"
    /\ Len(last.input[4]) = 2
    /\ TexHeight[last.input[4][1]] = last.input[3]
    /\ TexWidth[last.input[4][2]] = last.input[2]
    /\ TexHeight[last.input[4][2]] # last.input[3]
    /\ TexHeight[last.input[5]] = last.input[3]
    /\ last.outcome = "equal"

\* The declared uniforms the program has no location for, by position.
Unresolved == {i \in 1..Len(run.createProps.uniforms) :
                  run.createProps.uniforms[i].identifier \notin run.program.active}

\* C3: create fails naming the first declared uniform without a location, or
\* returns a Command with one binding per declared uniform, in declaration
\* order, each with its location.
C3_UniformsLocatedOrNamed ==
    (run.op = "create") =>
        IF Unresolved # {}
        THEN /\ run.outcome = "No location for uniform"
             /\ run.identifier =
                    run.createProps.uniforms[CHOOSE i \in Unresolved :
                                                \A j \in Unresolved : i <= j].identifier
             /\ ~cmd.made
        ELSE /\ run.outcome = "ok"
             /\ cmd.made
             /\ Len(cmd.uniformInfo) = Len(run.createProps.uniforms)
             /\ \A i \in 1..Len(cmd.uniformInfo) :
                    /\ cmd.uniformInfo[i].identifier = run.createProps.uniforms[i].identifier
                    /\ cmd.uniformInfo[i].location # NullLocation
                    /\ cmd.uniformInfo[i].location =
                           LocationOf(run.createProps.uniforms[i].identifier)
                    /\ cmd.uniformInfo[i].definition.type = run.createProps.uniforms[i].type

\* Three uniforms declared, the first located, the other two not: the error
\* names the second.
C3_Witness ==
    /\ run.op = "create"
    /\ Len(run.createProps.uniforms) = 3
    /\ Unresolved = {2, 3}
    /\ run.identifier = run.createProps.uniforms[2].identifier

DrawFunctions == {"drawElementsInstanced", "drawElements", "drawArraysInstanced",
                  "drawArrays"}

IsDrawCall(c) == c.fn \in DrawFunctions

\* C4: a draw issues exactly one GPU draw call, indexed iff hasElements and
\* instanced iff instanceCount > 0, carrying the vertex array's count, with
\* UNSIGNED_INT indices when indexed.
C4_OneDrawCallOfFour ==
    (run.op = "execute") =>
        LET d == SelectSeq(run.calls, IsDrawCall)
        IN  /\ Len(d) = 1
            /\ (d[1].fn \in {"drawElementsInstanced", "drawElements"}) <=> run.vao.hasElements
            /\ (d[1].fn \in {"drawElementsInstanced", "drawArraysInstanced"})
                   <=> (run.vao.instanceCount > 0)
            /\ d[1].args[1] = cmd.glPrimitive
            /\ IF run.vao.hasElements
               THEN d[1].args[2] = run.vao.count /\ d[1].args[3] = UNSIGNED_INT
               ELSE d[1].args[3] = run.vao.count
            /\ (run.vao.instanceCount > 0) =>
                   d[1].args[Len(d[1].args)] = run.vao.instanceCount

\* An indexed, instanced draw.
C4_Witness ==
    /\ run.op = "execute"
    /\ run.vao.hasElements
    /\ run.vao.instanceCount > 0
    /\ \E i \in 1..Len(run.calls) : run.calls[i].fn = "drawElementsInstanced"

IsTextureInfo(info) == info.definition.type = "texture"

IsActiveTexture(c) == c.fn = "activeTexture"

\* C5: in every draw, the k-th texture uniform in declaration order is bound
\* through unit k - 1: the draw selects units 0..N-1 in order, and right
\* after selecting unit k - 1 it binds a texture and sets that uniform's
\* sampler to k - 1.
C5_TextureUnitsInDeclarationOrder ==
    (run.op = "execute") =>
        LET tex == SelectSeq(cmd.uniformInfo, IsTextureInfo)
            units == SelectSeq(run.calls, IsActiveTexture)
        IN  /\ Len(units) = Len(tex)
            /\ \A k \in 1..Len(tex) : units[k].args = <<TEXTURE0 + (k - 1)>>
            /\ \A k \in 1..Len(tex) :
                   \E i \in 1..(Len(run.calls) - 2) :
                       /\ run.calls[i] = Call("activeTexture", <<TEXTURE0 + (k - 1)>>)
                       /\ run.calls[i + 1].fn = "bindTexture"
                       /\ run.calls[i + 2] = Call("uniform1i", <<tex[k].location, k - 1>>)

\* The second draw of a command whose uniforms are texture, float, texture.
C5_Witness ==
    /\ run.op = "execute"
    /\ drawsDone = 2
    /\ Len(cmd.uniformInfo) = 3
    /\ cmd.uniformInfo[1].definition.type = "texture"
    /\ cmd.uniformInfo[2].definition.type = "1f"
    /\ cmd.uniformInfo[3].definition.type = "texture"

\* The last operation was a restore() that found the framebuffer object valid.
RestoredValid ==
    /\ last.op = "restore"
    /\ IsFramebuffer(last.liveBefore, last.objBefore.glFramebuffer)

\* The textures whose restore() the last operation called, in call order.
RestoredTextures ==
    LET IsRestore(e) == e.op = "restore"
        r == SelectSeq(last.trace, IsRestore)
    IN  [i \in 1..Len(r) |-> r[i].a]

\* The attachments of a framebuffer, colours first.
Attachments(f) ==
    f.colors \o (IF f.depthStencil # NoTexture THEN <<f.depthStencil>> ELSE <<>>)

\* C6: restore() on a still valid framebuffer object creates nothing and
\* leaves handle and Target alone, and calls restore() once per attachment.
C6_RestoreValidIsNoOp ==
    RestoredValid =>
        /\ ~InitRan
        /\ last.outcome = "ok"
        /\ glFramebuffers = last.liveBefore
        /\ fb.glFramebuffer = last.objBefore.glFramebuffer
        /\ fb.framebufferTarget = last.objBefore.framebufferTarget
        /\ fb = last.objBefore
        /\ RestoredTextures = Attachments(last.objBefore)

\* A valid framebuffer with two colour buffers and a depth-stencil buffer
\* was restored.
C6_Witness ==
    /\ RestoredValid
    /\ Len(last.objBefore.colors) = 2
    /\ last.objBefore.depthStencil # NoTexture

\* C7: in restore(), every attachment is restored before the driver is
\* asked about the framebuffer object; init() runs iff the driver calls the
\* object invalid, and then after the attachments' restore().
C7_RestoreOrder ==
    (last.op = "restore") =>
        /\ Cardinality(Positions(last.trace, "isFramebuffer")) = 1
        /\ Cardinality(Positions(last.trace, "restore")) = Len(Attachments(last.objBefore))
        /\ \A i \in Positions(last.trace, "restore"), j \in Positions(last.trace, "isFramebuffer") :
               i < j
        /\ InitRan <=> ~IsFramebuffer(last.liveBefore, last.objBefore.glFramebuffer)
        /\ \A i \in Positions(last.trace, "restore") \cup Positions(last.trace, "isFramebuffer"),
              j \in Positions(last.trace, "createFramebuffer") : i < j

\* restore() after context loss re-ran init() on a framebuffer with two
\* attachments.
C7_Witness ==
    /\ last.op = "restore"
    /\ InitRan
    /\ last.objBefore.glFramebuffer # NullHandle
    /\ Len(Attachments(last.objBefore)) >= 2

\* C8: a construction or restore() that returns leaves a non-null, valid
\* framebuffer object and a non-null Target.
C8_NeverSilentlyInvalid ==
    (last.op \in {"construct", "restore"} /\ last.outcome = "ok") =>
        /\ last.objAfter.glFramebuffer # NullHandle
        /\ IsFramebuffer(glFramebuffers, last.objAfter.glFramebuffer)
        /\ last.objAfter.framebufferTarget # Null

\* C9: when the completeness check reports anything but complete, the
\* object just created is deleted, init() fails, and the Framebuffer's
\* handle and Target are what they were.
C9_IncompleteDeletesAndKeeps ==
    (last.status \notin {"none", "FRAMEBUFFER_COMPLETE"}) =>
        /\ last.outcome = "Framebuffer not complete"
        /\ InitRan
        /\ \E i \in Positions(last.trace, "deleteFramebuffer") : last.trace[i].a = CreatedHandle
        /\ ~IsFramebuffer(glFramebuffers, CreatedHandle)
        /\ last.objAfter.glFramebuffer = last.objBefore.glFramebuffer
        /\ last.objAfter.framebufferTarget = last.objBefore.framebufferTarget
        /\ (last.op \in {"init", "restore"}) => fb = last.objBefore

\* A forced init() of a framebuffer that had an object failed on an
\* unsupported combination.
C9_Witness ==
    /\ last.op = "init"
    /\ last.status = "FRAMEBUFFER_UNSUPPORTED"
    /\ last.objBefore.glFramebuffer # NullHandle
    /\ last.objBefore.framebufferTarget # Null
    /\ CreatedHandle # NullHandle

\* The calls of a draw that are not about the framebuffer argument.
IsCoreCall(c) == c.fn \notin {"framebuffer.bind", "drawBuffers", "framebuffer.unbind"}

\* The clear a command declares: the clear value of each declared buffer,
\* then one clear of exactly the declared buffers; nothing if none is declared.
DeclaredClear(ci) ==
    LET values == (IF ci.color # Null THEN <<Call("clearColor", ci.color[1])>> ELSE <<>>)
                  \o (IF ci.depth # Null THEN <<Call("clearDepth", ci.depth)>> ELSE <<>>)
                  \o (IF ci.stencil # Null THEN <<Call("clearStencil", ci.stencil)>> ELSE <<>>)
        bits == (IF ci.color # Null THEN COLOR_BUFFER_BIT ELSE 0)
                + (IF ci.depth # Null THEN DEPTH_BUFFER_BIT ELSE 0)
                + (IF ci.stencil # Null THEN STENCIL_BUFFER_BIT ELSE 0)
    IN  IF values = <<>> THEN <<>> ELSE values \o <<Call("clear", <<bits>>)>>

\* C10: a draw binds the program, sets the uniforms, binds the vertex
\* array, clears what the command declares, sets the viewport to the target's
\* size, issues one draw call and unbinds the vertex array, in that order.
C10_DrawOrder ==
    (run.op = "execute") =>
        LET core == SelectSeq(run.calls, IsCoreCall)
            n == Len(core)
            u == updateUniforms(cmd.uniformInfo, run.props)
            width == IF run.framebuffer # Null THEN run.framebuffer[1].width
                     ELSE DrawingBuffer.width
            height == IF run.framebuffer # Null THEN run.framebuffer[1].height
                      ELSE DrawingBuffer.height
        IN  /\ n >= 5 + Len(u)
            /\ core[1] = Call("useProgram", <<cmd.glProgram>>)
            /\ SubSeq(core, 2, 1 + Len(u)) = u
            /\ core[2 + Len(u)] = Call("bindVertexArray", <<run.vao.glVertexArrayObject>>)
            /\ SubSeq(core, 3 + Len(u), n - 3) = DeclaredClear(cmd.clearInfo)
            /\ core[n - 2] = Call("viewport", <<0, 0, width, height>>)
            /\ IsDrawCall(core[n - 1])
            /\ core[n] = Call("bindVertexArray", <<NullHandle>>)
            /\ gl.vertexArray = NullHandle
            /\ gl.program = cmd.glProgram

\* A draw into a framebuffer with a command that clears depth to 0 only.
C10_Witness ==
    /\ run.op = "execute"
    /\ run.framebuffer # Null
    /\ cmd.clearInfo.color = Null
    /\ cmd.clearInfo.depth = Some(<<0>>)
    /\ cmd.clearInfo.stencil = Null
    /\ \E i \in 1..Len(run.calls) : run.calls[i] = Call("clear", <<DEPTH_BUFFER_BIT>>)

----------------------------------------------------------------------------
(* Command.locate *)

\* A key that is a decimal integer: one or more digits.
IsDecimalInteger(key) ==
    Len(key) >= 1 /\ \A i \in 1..Len(key) : IsDigit(key[i])

\* C11: locate passes a decimal-integer key through with its buffer, looks
\* every other key up in the program and fails naming the key if the program
\* has no such attribute; so every key of a located map is an integer
\* location.
C11_LocateKeysAreIntegers ==
    run.op = "locate" =>
        /\ run.outcome = "ok" =>
              /\ \A key \in DOMAIN run.located : IsDecimalInteger(key)
              /\ \A i \in 1..Len(run.attributes) :
                    LET key == run.attributes[i][1]
                    IN  IF IsDecimalInteger(key)
                        THEN key \in DOMAIN run.located
                        ELSE /\ key \in DOMAIN run.table
                             /\ ToKey(run.table[key]) \in DOMAIN run.located
        /\ run.outcome # "ok" =>
              /\ run.outcome = "No location for attrib"
              /\ \E i \in 1..Len(run.attributes) :
                    /\ run.attributes[i][1] = run.key
                    /\ ~IsDecimalInteger(run.key)
                    /\ run.key \notin DOMAIN run.table
        /\ (\E i \in 1..Len(run.attributes) :
               /\ ~IsDecimalInteger(run.attributes[i][1])
               /\ run.attributes[i][1] \notin DOMAIN run.table)
           => run.outcome # "ok"

----------------------------------------------------------------------------
(* Command.updateUniforms: values and dispatch *)

\* The GL function that updates a uniform of the given type tag.
UniformFunction(type) ==
    CASE type = "texture" -> "uniform1i"
      [] type \in {"matrix2fv", "matrix3fv", "matrix4fv"} ->
            "uniformMatrix" \o SubSeq(type, 7, Len(type))
      [] OTHER -> "uniform" \o type

UniformFunctions == {UniformFunction(t) : t \in UniformTypes}

\* The positions in the last draw's calls of uniform updates at a location.
UpdatesAt(loc) ==
    {i \in DOMAIN run.calls :
        run.calls[i].fn \in UniformFunctions /\ run.calls[i].args[1] = loc}

\* What a uniform's value resolves to for given props: the static value, or
\* the result of the accessor (accessor v computes props + v).
Resolved(value, props) == IF value.isFunction THEN props + value.v ELSE value.v

\* The first component of the value the update at position i passes on.
ValueSet(i, type) ==
    CASE type = "texture" ->
            IF i > 1 /\ run.calls[i - 1].fn = "bindTexture"
            THEN run.calls[i - 1].args[2] ELSE -1
      [] type \in {"matrix2fv", "matrix3fv", "matrix4fv"} -> run.calls[i].args[3]
      [] OTHER -> run.calls[i].args[2]

IsAccessorCall(c) == c.fn = "accessor"

HasFunctionValue(info) == info.definition.value.isFunction

\* C12: in every draw each binding's value is resolved afresh: a static value
\* is used as it is, a computed one by calling its accessor exactly once with
\* this draw's props; the uniform is set to that result, whatever an earlier
\* draw with other props resolved.
C12_ValuesResolvedPerDraw ==
    run.op = "execute" =>
        /\ LET invoked == SelectSeq(run.calls, IsAccessorCall)
               computed == SelectSeq(cmd.uniformInfo, HasFunctionValue)
           IN  /\ Len(invoked) = Len(computed)
               /\ \A k \in 1..Len(computed) :
                     invoked[k].args = <<computed[k].definition.value.v, run.props>>
        /\ \A k \in 1..Len(cmd.uniformInfo) :
              LET info == cmd.uniformInfo[k]
              IN  \A i \in UpdatesAt(info.location) :
                     ValueSet(i, info.definition.type)
                         = Resolved(info.definition.value, run.props)

C12_Witness ==
    /\ run.op = "execute"
    /\ drawsDone = 2
    /\ run.previous # 0
    /\ run.previous # run.props
    /\ \E k \in 1..Len(cmd.uniformInfo) :
          /\ HasFunctionValue(cmd.uniformInfo[k])
          /\ UpdatesAt(cmd.uniformInfo[k].location) # {}
    /\ \E k \in 1..Len(cmd.uniformInfo) :
          /\ ~HasFunctionValue(cmd.uniformInfo[k])
          /\ UpdatesAt(cmd.uniformInfo[k].location) # {}

----------------------------------------------------------------------------
(* Framebuffer: the number of colour attachments *)

ColorVariants == {"withColor", "withColorDepth", "withColorDepthStencil"}

\* The colour attachments init() made.
ColorAttachmentsMade ==
    {i \in DOMAIN last.trace :
        /\ last.trace[i].op = "framebufferTexture2D"
        /\ last.trace[i].a \notin {DEPTH_ATTACHMENT, DEPTH_STENCIL_ATTACHMENT}}

\* C13: a construction with an empty colour list through withColor,
\* withColorDepth or withColorDepthStencil fails before any framebuffer object
\* is created; withDepth and withDepthStencil construct with no colour
\* attachment and never fail that way.
C13_EmptyColorListFails ==
    last.op = "construct" =>
        /\ (last.input[1] \in ColorVariants /\ last.input[4] = <<>>) =>
              /\ last.outcome = "nonEmpty"
              /\ ~InitRan
              /\ nextHandle = 1
              /\ glFramebuffers = {}
              /\ ~fb.made
        /\ (last.input[1] \notin ColorVariants) =>
              /\ last.outcome # "nonEmpty"
              /\ ~AnyMismatch(last.input) =>
                    /\ InitRan
                    /\ last.objBefore.colors = <<>>
                    /\ ColorAttachmentsMade = {}
              /\ last.outcome = "ok" => fb.made /\ fb.colors = <<>>

\* withColorDepth with no colour buffer and a depth buffer of the right size.
C13_Witness ==
    /\ last.op = "construct"
    /\ last.input[1] = "withColorDepth"
    /\ last.input[4] = <<>>
    /\ TexWidth[last.input[5]] = last.input[2]
    /\ TexHeight[last.input[5]] = last.input[3]
    /\ last.outcome = "nonEmpty"

----------------------------------------------------------------------------
(* Who binds framebuffers *)

\* Requests to bind or unbind a framebuffer that bypass Device's stack.
DirectBinds == {"framebuffer.bind", "framebuffer.unbind", "bindFramebuffer"}

\* C14: the bound framebuffer changes only through Device's binding-stack
\* push and pop: it is always the top of the stack, and neither
\* Framebuffer.init nor Command's draw path binds or unbinds a framebuffer
\* itself.
C14_OnlyDeviceBinds ==
    /\ glDrawFramebuffer = Top(stackDrawFramebuffer)
    /\ \A i \in DOMAIN last.trace : last.trace[i].op \notin DirectBinds
    /\ run.op = "execute" =>
          \A i \in DOMAIN run.calls : run.calls[i].fn \notin DirectBinds

----------------------------------------------------------------------------
(* Command.updateUniforms: one update per binding *)

IsUniformUpdate(c) == c.fn \in UniformFunctions

IsUnknownType(c) == c.fn = "assert.never"

\* C15: in every draw each binding causes exactly one uniform update, at the
\* binding's location and by the function its type tag determines, in
\* declaration order; none of the 28 tags reaches the unknown-type branch.
C15_OneUpdatePerBinding ==
    run.op = "execute" =>
        LET updates == SelectSeq(run.calls, IsUniformUpdate)
        IN  /\ Len(updates) = Len(cmd.uniformInfo)
            /\ \A k \in 1..Len(cmd.uniformInfo) :
                  /\ cmd.uniformInfo[k].definition.type \in UniformTypes
                  /\ updates[k].fn = UniformFunction(cmd.uniformInfo[k].definition.type)
                  /\ updates[k].args[1] = cmd.uniformInfo[k].location
            /\ SelectSeq(run.calls, IsUnknownType) = <<>>

\* A draw with three bindings, a texture between two floats.
C15_Witness ==
    /\ run.op = "execute"
    /\ Len(cmd.uniformInfo) = 3
    /\ cmd.uniformInfo[1].definition.type = "1f"
    /\ cmd.uniformInfo[2].definition.type = "texture"
    /\ cmd.uniformInfo[3].definition.type = "1f"
    /\ Len(SelectSeq(run.calls, IsUniformUpdate)) = 3

----------------------------------------------------------------------------
(* Command.locate: the number of attributes *)

\* C16: a locate that succeeds returns as many entries as it was given: two
\* attributes that claim the same location are not merged into one.
C16_LocateKeepsEveryAttribute ==
    (run.op = "locate" /\ run.outcome = "ok") =>
        Cardinality(DOMAIN run.located) = Len(run.attributes)

====
